---- MODULE Spec2Model ----
(***************************************************************************)
(* Model of generate_tetrahedron.py (class Complex): construction from a   *)
(* two-row atom table, find_centroid, generate_substituent_vectors and     *)
(* write_xyz.                                                              *)
(*                                                                         *)
(* Numbers.  The program computes in IEEE doubles.  The model computes     *)
(* exactly in the field Q(sqrt 2, sqrt 3): a finite number is              *)
(*   (q[1] + q[2]*sqrt2 + q[3]*sqrt3 + q[4]*sqrt6) / den                   *)
(* kept in lowest terms, so that two numbers are equal exactly when their  *)
(* records are equal.  The non-finite doubles nan, +inf and -inf are kept  *)
(* as values of their own, with the IEEE rules for 0/0, x/0, 0*inf ...     *)
(* Rounding is not modelled: a property that holds here holds of the       *)
(* program up to floating-point tolerance.                                 *)
(*                                                                         *)
(* Python evaluates every expression once and passes values.  The          *)
(* arithmetic is therefore written as functions (whose arguments are       *)
(* values), and a name that the code assigns once and reads several times  *)
(* is bound with TheValue({ ... : name \in {expression} }).                *)
(***************************************************************************)
EXTENDS Integers, Sequences, FiniteSets, TLC

\* ------------------------------------------------------------------------
\* Bounds of the model
\* ------------------------------------------------------------------------

\* Coordinates of the bond vector (heavy atom minus bonded atom) range over
\* -MaxCoord .. MaxCoord.
MaxCoord == 1

\* Number of method calls made on one Complex object.
MaxCalls == 2

\* ------------------------------------------------------------------------
\* float64 arithmetic, exact
\* ------------------------------------------------------------------------

\* The element of a singleton set.
TheValue(S) == CHOOSE r \in S : TRUE

Int4   == Int \X Int \X Int \X Int
Float  == [k : {"num", "nan", "inf"}, q : Int4, den : Int]
Vector == Float \X Float \X Float
Matrix == Vector \X Vector \X Vector

Abs[i \in Int] == IF i < 0 THEN -i ELSE i

GCD[a \in Nat, b \in Nat] == IF b = 0 THEN a ELSE GCD[b, a % b]

GCD4[q \in Int4, d \in Int] ==
    GCD[GCD[GCD[GCD[Abs[q[1]], Abs[q[2]]], Abs[q[3]]], Abs[q[4]]], Abs[d]]

\* q/d with the common factor g divided out (d > 0).
Reduced[q \in Int4, d \in Int, g \in Int] ==
    [k |-> "num",
     q |-> <<q[1] \div g, q[2] \div g, q[3] \div g, q[4] \div g>>,
     den |-> d \div g]

\* The finite number q/d in lowest terms with a positive denominator (d # 0).
Mk[q \in Int4, d \in Int] ==
    IF d < 0 THEN Reduced[<<-q[1], -q[2], -q[3], -q[4]>>, -d, GCD4[q, d]]
    ELSE Reduced[q, d, GCD4[q, d]]

Rat(p, d) == Mk[<<p, 0, 0, 0>>, d]
Num(p)    == Rat(p, 1)
Zero      == Num(0)
One       == Num(1)

NaN  == [k |-> "nan", q |-> <<0, 0, 0, 0>>, den |-> 1]
PInf == [k |-> "inf", q |-> <<1, 0, 0, 0>>, den |-> 1]
NInf == [k |-> "inf", q |-> <<-1, 0, 0, 0>>, den |-> 1]

IsNaN(x)      == x.k = "nan"
IsInf(x)      == x.k = "inf"
IsFinite(x)   == x.k = "num"
IsRational(x) == x.k = "num" /\ x.q[2] = 0 /\ x.q[3] = 0 /\ x.q[4] = 0

\* Sign of a + b*sqrt2.
Sign2[a \in Int, b \in Int] ==
    IF a >= 0 /\ b >= 0 THEN (IF a = 0 /\ b = 0 THEN 0 ELSE 1)
    ELSE IF a <= 0 /\ b <= 0 THEN -1
    ELSE IF a > 0 THEN (IF a * a > 2 * b * b THEN 1 ELSE -1)
    ELSE (IF 2 * b * b > a * a THEN 1 ELSE -1)

\* Sign of p + r*sqrt3 from the signs of p, of r and of p*p - 3*r*r.
SignPR[sp \in Int, sr \in Int, df \in Int] ==
    IF sp >= 0 /\ sr >= 0 THEN (IF sp = 0 /\ sr = 0 THEN 0 ELSE 1)
    ELSE IF sp <= 0 /\ sr <= 0 THEN -1
    ELSE IF sp > 0 THEN df ELSE -df

\* Sign of q[1] + q[2]*sqrt2 + q[3]*sqrt3 + q[4]*sqrt6.
Sign4[q \in Int4] ==
    SignPR[Sign2[q[1], q[2]], Sign2[q[3], q[4]],
           Sign2[q[1] * q[1] + 2 * q[2] * q[2] - 3 * q[3] * q[3] - 6 * q[4] * q[4],
                 2 * q[1] * q[2] - 6 * q[3] * q[4]]]

Sign[x \in Float] == IF IsNaN(x) THEN 0 ELSE Sign4[x.q]

SInf[s \in Int] == IF s < 0 THEN NInf ELSE PInf

Neg[x \in Float] ==
    IF IsNaN(x) THEN NaN
    ELSE IF IsInf(x) THEN SInf[-Sign[x]]
    ELSE Mk[<<-x.q[1], -x.q[2], -x.q[3], -x.q[4]>>, x.den]

Add[x \in Float, y \in Float] ==
    IF IsNaN(x) \/ IsNaN(y) THEN NaN
    ELSE IF IsInf(x) /\ IsInf(y) THEN (IF x = y THEN x ELSE NaN)
    ELSE IF IsInf(x) THEN x
    ELSE IF IsInf(y) THEN y
    ELSE Mk[<< x.q[1] * y.den + y.q[1] * x.den, x.q[2] * y.den + y.q[2] * x.den,
               x.q[3] * y.den + y.q[3] * x.den, x.q[4] * y.den + y.q[4] * x.den >>,
            x.den * y.den]

Sub[x \in Float, y \in Float] == Add[x, Neg[y]]

\* Product of two numerators in the basis 1, sqrt2, sqrt3, sqrt6.
IMul[p \in Int4, r \in Int4] ==
    << p[1] * r[1] + 2 * p[2] * r[2] + 3 * p[3] * r[3] + 6 * p[4] * r[4],
       p[1] * r[2] + p[2] * r[1] + 3 * (p[3] * r[4] + p[4] * r[3]),
       p[1] * r[3] + p[3] * r[1] + 2 * (p[2] * r[4] + p[4] * r[2]),
       p[1] * r[4] + p[4] * r[1] + p[2] * r[3] + p[3] * r[2] >>

Mul[x \in Float, y \in Float] ==
    IF IsNaN(x) \/ IsNaN(y) THEN NaN
    ELSE IF IsInf(x) \/ IsInf(y)
         THEN (IF Sign[x] = 0 \/ Sign[y] = 0 THEN NaN ELSE SInf[Sign[x] * Sign[y]])
    ELSE Mk[IMul[x.q, y.q], x.den * y.den]

\* d * c3 * conj2(y) / norm(y), where y = n * c3 lies in Q(sqrt2).
InvBy[d \in Int, c3 \in Int4, y \in Int4] ==
    Mk[IMul[<<d, 0, 0, 0>>, IMul[c3, <<y[1], -y[2], 0, 0>>]],
       y[1] * y[1] - 2 * y[2] * y[2]]

\* d/n for a numerator n # 0: multiply by the conjugates of n.
InvN[d \in Int, n \in Int4] ==
    InvBy[d, <<n[1], n[2], -n[3], -n[4]>>, IMul[n, <<n[1], n[2], -n[3], -n[4]>>]]

\* 1/x for a finite x # 0.
Inv[x \in Float] == InvN[x.den, x.q]

Div[x \in Float, y \in Float] ==
    IF IsNaN(x) \/ IsNaN(y) THEN NaN
    ELSE IF IsInf(y) THEN (IF IsInf(x) THEN NaN ELSE Zero)
    ELSE IF y = Zero THEN (IF x = Zero THEN NaN ELSE SInf[Sign[x]])
    ELSE IF IsInf(x) THEN SInf[Sign[x] * Sign[y]]
    ELSE Mul[x, Inv[y]]

\* The squarefree parts the field holds a square root of.
Radicands == {1, 2, 3, 6}

\* n = s*s*m with m a radicand.
HasRoot(n) == \E s \in 0..n : \E m \in Radicands : s * s * m = n

RootOf[n \in Nat] == CHOOSE sm \in (0..n) \X Radicands : sm[1] * sm[1] * sm[2] = n

\* s * sqrt(m) / d
Surd[s \in Nat, m \in Radicands, d \in Int] ==
    CASE m = 1 -> Mk[<<s, 0, 0, 0>>, d]
      [] m = 2 -> Mk[<<0, s, 0, 0>>, d]
      [] m = 3 -> Mk[<<0, 0, s, 0>>, d]
      [] m = 6 -> Mk[<<0, 0, 0, s>>, d]

SurdOf[sm \in Nat \X Radicands, d \in Int] == Surd[sm[1], sm[2], d]

\* np.sqrt, for the rational numbers whose root lies in the field.
Sqrt[x \in Float] ==
    IF IsNaN(x) THEN NaN
    ELSE IF IsInf(x) THEN (IF x = PInf THEN PInf ELSE NaN)
    ELSE IF Sign[x] < 0 THEN NaN
    ELSE CASE IsRational(x) -> SurdOf[RootOf[x.q[1] * x.den], x.den]

\* ------------------------------------------------------------------------
\* numpy vectors and 3x3 matrices
\* ------------------------------------------------------------------------

Vec(x, y, z) == <<Num(x), Num(y), Num(z)>>

VAdd[a \in Vector, b \in Vector] == <<Add[a[1], b[1]], Add[a[2], b[2]], Add[a[3], b[3]]>>
VSub[a \in Vector, b \in Vector] == <<Sub[a[1], b[1]], Sub[a[2], b[2]], Sub[a[3], b[3]]>>
VNeg[a \in Vector]               == <<Neg[a[1]], Neg[a[2]], Neg[a[3]]>>
VScale[s \in Float, a \in Vector] == <<Mul[s, a[1]], Mul[s, a[2]], Mul[s, a[3]]>>
VDiv[a \in Vector, s \in Float]   == <<Div[a[1], s], Div[a[2], s], Div[a[3], s]>>

\* np.dot of two vectors
Dot[a \in Vector, b \in Vector] ==
    Add[Add[Mul[a[1], b[1]], Mul[a[2], b[2]]], Mul[a[3], b[3]]]

\* np.cross
Cross[a \in Vector, b \in Vector] ==
    << Sub[Mul[a[2], b[3]], Mul[a[3], b[2]]],
       Sub[Mul[a[3], b[1]], Mul[a[1], b[3]]],
       Sub[Mul[a[1], b[2]], Mul[a[2], b[1]]] >>

\* np.linalg.norm of a vector
Norm[a \in Vector] == Sqrt[Dot[a, a]]

\* np.dot(matrix, vector)
MatVec[m \in Matrix, a \in Vector] == <<Dot[m[1], a], Dot[m[2], a], Dot[m[3], a]>>

Col[m \in Matrix, j \in 1..3] == <<m[1][j], m[2][j], m[3][j]>>

Transpose[m \in Matrix] == <<Col[m, 1], Col[m, 2], Col[m, 3]>>

\* np.dot(matrix, matrix)
MatMul[m \in Matrix, n \in Matrix] ==
    << MatVec[Transpose[n], m[1]], MatVec[Transpose[n], m[2]], MatVec[Transpose[n], m[3]] >>

MatAdd[m \in Matrix, n \in Matrix] == <<VAdd[m[1], n[1]], VAdd[m[2], n[2]], VAdd[m[3], n[3]]>>

MatScale[m \in Matrix, s \in Float] == <<VScale[s, m[1]], VScale[s, m[2]], VScale[s, m[3]]>>

\* np.eye(3)
Eye == << Vec(1, 0, 0), Vec(0, 1, 0), Vec(0, 0, 1) >>

\* ------------------------------------------------------------------------
\* class Complex
\* ------------------------------------------------------------------------

\* d[0]*d[0] + d[1]*d[1] + d[2]*d[2]
SumSq[d \in Vector] == Add[Add[Mul[d[1], d[1]], Mul[d[2], d[2]]], Mul[d[3], d[3]]]

\* Complex.distance (staticmethod)
distance(a, b) == Sqrt[SumSq[VSub[a, b]]]

\* The template assigned to self.equilateral_triangle by __init__.
TriangleTemplate ==
    << <<Zero, Div[One, Sqrt[Num(3)]], Zero>>,
       <<Rat(-1, 2), Div[Rat(-1, 2), Sqrt[Num(3)]], Zero>>,
       <<Rat(1, 2), Div[Rat(-1, 2), Sqrt[Num(3)]], Zero>> >>

\* self.bond_length_norm, from self.bond_length
Normalized(bl) == TheValue({ VDiv[v, Norm[v]] : v \in {bl} })

\* Complex.__init__ on the parsed table, whose rows are [atom, xyz].
Complex(table) ==
    TheValue({
        [data_matrix |-> t,
         atom_to_be_functionalized_xyz |-> t[1].xyz,
         bonded_atom_xyz |-> t[2].xyz,
         bond_length |-> VSub[t[1].xyz, t[2].xyz],
         bond_length_norm |-> Normalized(VSub[t[1].xyz, t[2].xyz]),
         equilateral_triangle |-> TriangleTemplate]
        : t \in {table} })

\* The value of b after line 44 of find_centroid.
ScaledBond(o) ==
    Mul[distance(o.atom_to_be_functionalized_xyz, o.bonded_atom_xyz),
        Mul[Num(2), Sqrt[Div[Num(2), Num(3)]]]]

\* Variant of CentroidWith that measures the centroid from the origin
\* instead of from the heavy atom; C7 distinguishes it from the code.
CentroidWith_FromOrigin(o, b) ==
    [obj |-> [o EXCEPT !.equilateral_triangle = MatScale[o.equilateral_triangle, b]],
     centroid |-> VScale[Div[b, Num(3)], o.bond_length_norm]]

\* Lines 45-47 of find_centroid, given b: the object afterwards and the
\* point returned.
CentroidWith(o, b) ==
    [obj |-> [o EXCEPT !.equilateral_triangle = MatScale[o.equilateral_triangle, b]],
     centroid |-> VAdd[o.atom_to_be_functionalized_xyz,
                       VScale[Div[b, Num(3)], o.bond_length_norm]]]

\* Complex.find_centroid: the object after the call and the point returned.
find_centroid(self0) ==
    TheValue({ CentroidWith(o, b) : o \in {self0}, b \in {ScaledBond(self0)} })

\* The matrix v_x of line 61.
Skew(v0) ==
    TheValue({ << <<Zero, Neg[v[3]], v[2]>>,
                  <<v[3], Zero, Neg[v[1]]>>,
                  <<Neg[v[2]], v[1], Zero>> >> : v \in {v0} })

\* Variant of line 64 without the factor 1/(1+c) on v_xsq; C6 distinguishes
\* it from the code.
Rodrigues_Unscaled(v_x0, c0) ==
    TheValue({ MatAdd[MatAdd[Eye, v_x], MatMul[v_x, v_x]] : v_x \in {v_x0} })

\* Line 64, given v_x and c.
Rodrigues(v_x0, c0) ==
    TheValue({ MatAdd[MatAdd[Eye, v_x], MatScale[MatMul[v_x, v_x], Div[One, Add[One, c]]]]
               : v_x \in {v_x0}, c \in {c0} })

\* normal_vector of lines 54-55
NormalVector == VDiv[Vec(0, 0, 1), Norm[Vec(0, 0, 1)]]

\* The rotation matrix of lines 59-64 for the bond direction u.
RotationMatrix(u) == Rodrigues(Skew(Cross[NormalVector, u]), Dot[u, NormalVector])

\* Variant of lines 70-72 that keeps only the first two coordinates of the
\* rotated template vector; C8 distinguishes it from the code.
Place_Flattened(centroid, sv) ==
    VAdd[VNeg[VSub[<<Zero, Zero, Zero>>, centroid]], <<sv[1], sv[2], Zero>>]

\* Lines 70-72: -(starting_coordinate - centroid) + substituent_vector
Place(centroid, sv) == VAdd[VNeg[VSub[<<Zero, Zero, Zero>>, centroid]], sv]

\* Lines 51-74, given what find_centroid returned and the rotation matrix.
SubstituentsWith(fc, rotation_matrix) ==
    [obj |-> fc.obj,
     centroid |-> fc.centroid,
     subs |-> << Place(fc.centroid, MatVec[rotation_matrix, fc.obj.equilateral_triangle[1]]),
                 Place(fc.centroid, MatVec[rotation_matrix, fc.obj.equilateral_triangle[2]]),
                 Place(fc.centroid, MatVec[rotation_matrix, fc.obj.equilateral_triangle[3]]) >>]

\* Complex.generate_substituent_vectors: the object after the call, the
\* centroid its find_centroid call returned, and the three points returned.
generate_substituent_vectors(self0) ==
    TheValue({ SubstituentsWith(fc, r)
               : fc \in {find_centroid(self0)},
                 r \in {RotationMatrix(self0.bond_length_norm)} })

\* ------------------------------------------------------------------------
\* The output file: a sequence of pieces of text.  A piece is a literal
\* string or the decimal text of one finite double.
\* ------------------------------------------------------------------------

Tok(str)  == [t |-> "txt", s |-> str, v |-> Zero]
NumTok(x) == [t |-> "num", s |-> "", v |-> x]
NL == Tok("\n")
SP == Tok(" ")

\* The text to_csv writes for one float cell: nothing for nan (na_rep = ''),
\* inf / -inf for the infinities, the shortest round-trip decimal otherwise.
FormatFloat(x) ==
    IF IsNaN(x) THEN <<>>
    ELSE IF IsInf(x) THEN << Tok(IF x = PInf THEN "inf" ELSE "-inf") >>
    ELSE << NumTok(x) >>

\* One line of to_csv(sep=' ', header=False): index label, then x, y, z.
CsvRow(row) ==
    <<Tok(row.atom), SP>> \o FormatFloat(row.xyz[1]) \o <<SP>> \o FormatFloat(row.xyz[2])
        \o <<SP>> \o FormatFloat(row.xyz[3]) \o <<NL>>

\* write_data.to_csv(filename, sep=' ', header=False, mode='a') for the
\* five rows of write_data
to_csv(content, rows) ==
    content \o CsvRow(rows[1]) \o CsvRow(rows[2]) \o CsvRow(rows[3])
            \o CsvRow(rows[4]) \o CsvRow(rows[5])

\* The positions at which a line of the text ends: each newline, and the
\* last piece when the text does not end with a newline.
LineEnds(content) ==
    { i \in 1..Len(content) : content[i] = NL \/ i = Len(content) }

\* The k-th smallest element of a set of positions.
KthOf(ends, k) == CHOOSE e \in ends : Cardinality({ x \in ends : x <= e }) = k

\* The k-th line, given where the lines end.
LineAt(content, ends, k) ==
    SubSeq(content, IF k = 1 THEN 1 ELSE KthOf(ends, k - 1) + 1, KthOf(ends, k))

\* f.readlines(): the lines of the text, each with its newline when it has one.
ReadLines(content) ==
    TheValue({ [k \in 1..Cardinality(ends) |-> LineAt(content, ends, k)]
               : ends \in {LineEnds(content)} })

\* line.replace('\r', '').replace('\n', '')
StripNewlines(line) == SelectSeq(line, LAMBDA tk : tk # NL /\ tk # Tok("\r"))

\* f.writelines(lines)
RECURSIVE WriteLines(_)
WriteLines(lines) ==
    IF lines = <<>> THEN <<>>
    ELSE WriteLines(SubSeq(lines, 1, Len(lines) - 1)) \o lines[Len(lines)]

\* Variant of lines 102-107 that leaves the file as to_csv wrote it; C5
\* distinguishes it from the code.
RemoveLastNewline_Skipped(content) == content

\* Lines 102-107: drop the newline of the last line and rewrite the file.
RemoveLastNewline(content) ==
    TheValue({ WriteLines([lines EXCEPT ![Len(lines)] = StripNewlines(lines[Len(lines)])])
               : lines \in {ReadLines(content)} })

\* The five rows concatenated on line 92, in that order.
WriteData(o, v, l1, l2, l3) ==
    << o.data_matrix[1], o.data_matrix[2],
       [atom |-> l1, xyz |-> v[1]],
       [atom |-> l2, xyz |-> v[2]],
       [atom |-> l3, xyz |-> v[3]] >>

\* Lines 95-97: the header appended to the file
WriteHeader(content) == content \o <<Tok("4"), NL>> \o <<NL>>

\* Lines 79-107, given what generate_substituent_vectors returned.
WriteWith(g, content, l1, l2, l3) ==
    [obj |-> g.obj,
     centroid |-> g.centroid,
     subs |-> g.subs,
     file |-> RemoveLastNewline(
                to_csv(WriteHeader(content), WriteData(g.obj, g.subs, l1, l2, l3)))]

\* Complex.write_xyz: the object after the call, the points its
\* generate_substituent_vectors call returned, and the file afterwards.
write_xyz(self0, content, l1, l2, l3) ==
    TheValue({ WriteWith(g, content, l1, l2, l3)
               : g \in {generate_substituent_vectors(self0)} })

\* ------------------------------------------------------------------------
\* Inputs
\* ------------------------------------------------------------------------

Coords == (-MaxCoord)..MaxCoord

\* Positions of the atom to be functionalized (input row 0).
HeavyAtoms == { <<0, 0, 0>>, <<1, -2, 3>> }

\* heavy - bonded.  The zero vector is the degenerate input; the vectors
\* whose length has no square root in the field are left out.
BondVectors ==
    { w \in Coords \X Coords \X Coords :
        HasRoot(w[1] * w[1] + w[2] * w[2] + w[3] * w[3]) }

\* The table read from the input file: row 0 the atom to be functionalized,
\* row 1 the atom bonded to it.
Table(h, w) ==
    << [atom |-> "C", xyz |-> Vec(h[1], h[2], h[3])],
       [atom |-> "H", xyz |-> Vec(h[1] - w[1], h[2] - w[2], h[3] - w[3])] >>

\* Labels passed to write_xyz.
LabelChoices == { <<"H", "H", "H">>, <<"F", "Cl", "Br">> }

\* Rotations applied to the input (about z, x, y by 90 degrees, about
\* (1,1,1) by 120 degrees).
Rotations ==
    { << Vec(0, -1, 0), Vec(1, 0, 0), Vec(0, 0, 1) >>,
      << Vec(1, 0, 0), Vec(0, 0, -1), Vec(0, 1, 0) >>,
      << Vec(0, 0, 1), Vec(0, 1, 0), Vec(-1, 0, 0) >>,
      << Vec(0, 0, 1), Vec(1, 0, 0), Vec(0, 1, 0) >> }

\* Translations applied to the input.
Translations == { Vec(1, 0, 0), Vec(-2, 1, 3), Vec(0, 0, -1) }

\* ------------------------------------------------------------------------
\* State
\* ------------------------------------------------------------------------

VARIABLES
    self,        \* the Complex object
    file,        \* the text of the output file
    rets,        \* the triples generate_substituent_vectors has returned, in call order
    centroids,   \* the points find_centroid has returned, in call order
    writes,      \* per write_xyz call: its labels and the points it wrote
    calls,       \* number of calls made on self
    other,       \* a second Complex, built on the transformed input (<<>> if none)
    xf,          \* the transformation of the input other was built on
    ret_other    \* the triple the first call on other returned (<<>> if none)

vars == <<self, file, rets, centroids, writes, calls, other, xf, ret_other>>

NoTransform == [kind |-> "none", m |-> Eye, t |-> Vec(0, 0, 0)]

Init ==
    /\ \E h \in HeavyAtoms : \E w \in BondVectors : self = Complex(Table(h, w))
    /\ file = <<>>
    /\ rets = <<>>
    /\ centroids = <<>>
    /\ writes = <<>>
    /\ calls = 0
    /\ other = <<>>
    /\ xf = NoTransform
    /\ ret_other = <<>>

\* A direct call of find_centroid.
FindCentroid ==
    /\ calls < MaxCalls
    /\ \E r \in {find_centroid(self)} :
         /\ self' = r.obj
         /\ centroids' = Append(centroids, r.centroid)
    /\ calls' = calls + 1
    /\ UNCHANGED <<file, rets, writes, other, xf, ret_other>>

\* A direct call of generate_substituent_vectors.
Generate ==
    /\ calls < MaxCalls
    /\ \E r \in {generate_substituent_vectors(self)} :
         /\ self' = r.obj
         /\ centroids' = Append(centroids, r.centroid)
         /\ rets' = Append(rets, r.subs)
    /\ calls' = calls + 1
    /\ UNCHANGED <<file, writes, other, xf, ret_other>>

\* A call of write_xyz on the output path.
WriteXyz ==
    /\ calls < MaxCalls
    /\ \E l \in LabelChoices :
         \E r \in {write_xyz(self, file, l[1], l[2], l[3])} :
             /\ self' = r.obj
             /\ centroids' = Append(centroids, r.centroid)
             /\ rets' = Append(rets, r.subs)
             /\ file' = r.file
             /\ writes' = Append(writes, [labels |-> l, subs |-> r.subs])
    /\ calls' = calls + 1
    /\ UNCHANGED <<other, xf, ret_other>>

Next == FindCentroid \/ Generate \/ WriteXyz

Spec == Init /\ [][Next]_vars

\* ------------------------------------------------------------------------
\* Two objects: one on the input, a fresh one on the transformed input
\* ------------------------------------------------------------------------

Rotated(table, m) ==
    << [atom |-> table[1].atom, xyz |-> MatVec[m, table[1].xyz]],
       [atom |-> table[2].atom, xyz |-> MatVec[m, table[2].xyz]] >>

Translated(table, t) ==
    << [atom |-> table[1].atom, xyz |-> VAdd[table[1].xyz, t]],
       [atom |-> table[2].atom, xyz |-> VAdd[table[2].xyz, t]] >>

\* Complex(...) on the rotated input.
ConstructRotated ==
    /\ other = <<>>
    /\ \E m \in Rotations :
         /\ other' = << Complex(Rotated(self.data_matrix, m)) >>
         /\ xf' = [kind |-> "rot", m |-> m, t |-> Vec(0, 0, 0)]
    /\ UNCHANGED <<self, file, rets, centroids, writes, calls, ret_other>>

\* Complex(...) on the translated input.
ConstructTranslated ==
    /\ other = <<>>
    /\ \E t \in Translations :
         /\ other' = << Complex(Translated(self.data_matrix, t)) >>
         /\ xf' = [kind |-> "trans", m |-> Eye, t |-> t]
    /\ UNCHANGED <<self, file, rets, centroids, writes, calls, ret_other>>

\* The first generate_substituent_vectors call on self.
GenerateSelf ==
    /\ rets = <<>>
    /\ \E r \in {generate_substituent_vectors(self)} :
         /\ self' = r.obj
         /\ centroids' = Append(centroids, r.centroid)
         /\ rets' = Append(rets, r.subs)
    /\ calls' = calls + 1
    /\ UNCHANGED <<file, writes, other, xf, ret_other>>

\* The first generate_substituent_vectors call on other.
GenerateOther ==
    /\ other # <<>>
    /\ ret_other = <<>>
    /\ \E r \in {generate_substituent_vectors(other[1])} :
         /\ other' = << r.obj >>
         /\ ret_other' = << r.subs >>
    /\ UNCHANGED <<self, file, rets, centroids, writes, calls, xf>>

NextRel == ConstructRotated \/ ConstructTranslated \/ GenerateSelf \/ GenerateOther

SpecRel == Init /\ [][NextRel]_vars

\* ------------------------------------------------------------------------
\* Vocabulary of the properties
\* ------------------------------------------------------------------------

Heavy  == self.atom_to_be_functionalized_xyz
Bonded == self.bonded_atom_xyz

\* The two input positions differ.
NonDegenerate == Heavy # Bonded

\* The bond direction is exactly opposite to the template normal (0,0,1).
AntiParallel(o) == o.bond_length_norm = Vec(0, 0, -1)

\* Squared Euclidean distance.
Dist2(a, b) == SumSq[VSub[a, b]]

\* Squared distance of p from the line through h with unit direction u.
AxisDist2(p, h, u) == SumSq[Cross[VSub[p, h], u]]

AllFinite(p) == IsFinite(p[1]) /\ IsFinite(p[2]) /\ IsFinite(p[3])
AllNaN(p)    == IsNaN(p[1]) /\ IsNaN(p[2]) /\ IsNaN(p[3])

\* The mean of three points.
Mean3(s) == VDiv[VAdd[VAdd[s[1], s[2]], s[3]], Num(3)]

\* The text of one row: label and three cells, separated by single spaces.
RowText(row) ==
    <<Tok(row.atom), SP>> \o FormatFloat(row.xyz[1]) \o <<SP>>
        \o FormatFloat(row.xyz[2]) \o <<SP>> \o FormatFloat(row.xyz[3])

\* The five rows one write_xyz call is to contribute.
RowsOf(w) ==
    << self.data_matrix[1], self.data_matrix[2],
       [atom |-> w.labels[1], xyz |-> w.subs[1]],
       [atom |-> w.labels[2], xyz |-> w.subs[2]],
       [atom |-> w.labels[3], xyz |-> w.subs[3]] >>

\* Line j (1..7) of the block of one write_xyz call, without its newline.
BlockLine(w, j) ==
    IF j = 1 THEN <<Tok("4")>> ELSE IF j = 2 THEN <<>> ELSE RowText(RowsOf(w)[j - 2])

\* The lines the file is to hold after the calls recorded in ws: seven per
\* call, each ended by a newline except the very last.
ExpectedLines(ws) ==
    [n \in 1..(7 * Len(ws)) |->
        BlockLine(ws[((n - 1) \div 7) + 1], ((n - 1) % 7) + 1)
            \o (IF n = 7 * Len(ws) THEN <<>> ELSE <<NL>>)]

\* ------------------------------------------------------------------------
\* Properties
\* ------------------------------------------------------------------------

\* C1: for distinct heavy and bonded atoms, the heavy atom and the three
\* points generate_substituent_vectors returns have all 6 squared pairwise
\* distances equal to the squared bond length.
C1_RegularTetrahedron ==
    NonDegenerate =>
        \A i \in DOMAIN rets :
            /\ \A j \in 1..3 : Dist2(Heavy, rets[i][j]) = Dist2(Heavy, Bonded)
            /\ Dist2(rets[i][1], rets[i][2]) = Dist2(Heavy, Bonded)
            /\ Dist2(rets[i][2], rets[i][3]) = Dist2(Heavy, Bonded)
            /\ Dist2(rets[i][1], rets[i][3]) = Dist2(Heavy, Bonded)

\* C2: every call of generate_substituent_vectors on one object, direct or
\* made by write_xyz, before or after direct find_centroid calls, returns
\* the same three points as the first.
C2_Repeatable == \A i \in DOMAIN rets : rets[i] = rets[1]

\* C3: with identical heavy and bonded coordinates the computation ends in
\* an error: no substituent points are ever returned and write_xyz writes
\* nothing.
C3_DegenerateRejected ==
    ~NonDegenerate => rets = <<>> /\ writes = <<>> /\ file = <<>>

\* C4: when the bond direction is exactly (0,0,-1) the three points returned
\* are well defined: no coordinate is nan or infinite.
C4_AntiParallelDefined ==
    (NonDegenerate /\ AntiParallel(self)) =>
        \A i \in DOMAIN rets : \A j \in 1..3 : AllFinite(rets[i][j])

\* C5: after exactly one write_xyz call on an empty output path the file is
\* the 7 lines `4`, empty, heavy row, bonded row, and the three substituent
\* rows with the labels given, in that order; the last row has no newline.
C5_SingleWriteLayout ==
    Len(writes) = 1 =>
        /\ ReadLines(file) =
             << <<Tok("4"), NL>>,
                <<NL>>,
                RowText(self.data_matrix[1]) \o <<NL>>,
                RowText(self.data_matrix[2]) \o <<NL>>,
                RowText([atom |-> writes[1].labels[1], xyz |-> writes[1].subs[1]]) \o <<NL>>,
                RowText([atom |-> writes[1].labels[2], xyz |-> writes[1].subs[2]]) \o <<NL>>,
                RowText([atom |-> writes[1].labels[3], xyz |-> writes[1].subs[3]]) >>
        /\ file[Len(file)] # NL

\* A single write_xyz call has run on a regular input, with three distinct
\* labels, after an earlier call on the same object.
C5_Witness ==
    /\ Len(writes) = 1
    /\ calls = 2
    /\ writes[1].labels = <<"F", "Cl", "Br">>
    /\ NonDegenerate
    /\ ~AntiParallel(self)
    /\ Len(ReadLines(file)) = 7

\* C8: for a non-degenerate bond not anti-parallel to (0,0,1), the points of
\* the first generate_substituent_vectors call are mutually equidistant,
\* equally far from the bond axis through the heavy atom, and equally far
\* from the heavy atom.
C8_FirstCallSymmetric ==
    (NonDegenerate /\ ~AntiParallel(self) /\ rets # <<>>) =>
        /\ Dist2(rets[1][1], rets[1][2]) = Dist2(rets[1][2], rets[1][3])
        /\ Dist2(rets[1][1], rets[1][2]) = Dist2(rets[1][1], rets[1][3])
        /\ AxisDist2(rets[1][1], Heavy, self.bond_length_norm)
             = AxisDist2(rets[1][2], Heavy, self.bond_length_norm)
        /\ AxisDist2(rets[1][1], Heavy, self.bond_length_norm)
             = AxisDist2(rets[1][3], Heavy, self.bond_length_norm)
        /\ Dist2(rets[1][1], Heavy) = Dist2(rets[1][2], Heavy)
        /\ Dist2(rets[1][1], Heavy) = Dist2(rets[1][3], Heavy)

\* A first call has returned three distinct finite points for a bond that
\* is neither along the z axis nor in the template plane.
C8_Witness ==
    /\ rets # <<>>
    /\ NonDegenerate
    /\ self.bond_length_norm[3] \notin {Zero, One, Num(-1)}
    /\ \A j \in 1..3 : AllFinite(rets[1][j])
    /\ rets[1][1] # rets[1][2]

\* C9: find_centroid returns heavy + (b/3)*u with b the unscaled distance
\* between the heavy and the bonded atom and u the unit bond direction.
C9_CentroidPlacement ==
    NonDegenerate =>
        \A i \in DOMAIN centroids :
            centroids[i] = VAdd[Heavy, VScale[Div[distance(Heavy, Bonded), Num(3)],
                                              self.bond_length_norm]]

\* C10: after one or more write_xyz calls on the same path the file is one
\* block per call (`4`, an empty line, five rows), every line being `4`,
\* empty or a four-field row, with no newline at the very end.
C10_RepeatedWrites ==
    writes # <<>> => ReadLines(file) = ExpectedLines(writes)

\* ------------------------------------------------------------------------
\* Properties of the pair of objects (SpecRel)
\* ------------------------------------------------------------------------

\* Both first calls have returned, the second object being built on the
\* input transformed in the given way.
Compared(kind) == xf.kind = kind /\ rets # <<>> /\ ret_other # <<>>

\* The points s about their mean m, seen along the unit direction u: the
\* scalar products among them, their heights along u and their orientation.
ShapeAbout(s, m, u) ==
    << Dot[VSub[s[1], m], VSub[s[1], m]], Dot[VSub[s[1], m], VSub[s[2], m]],
       Dot[VSub[s[1], m], VSub[s[3], m]], Dot[VSub[s[2], m], VSub[s[2], m]],
       Dot[VSub[s[2], m], VSub[s[3], m]], Dot[VSub[s[3], m], VSub[s[3], m]],
       Dot[VSub[s[1], m], u], Dot[VSub[s[2], m], u], Dot[VSub[s[3], m], u],
       Dot[Cross[VSub[s[1], m], VSub[s[2], m]], u] >>

\* C6 (as claimed): the substituents of the rotated input are, vertex by
\* vertex, the rotated substituents of the input.
C6_RotationCommutes ==
    (Compared("rot") /\ NonDegenerate) =>
        \A j \in 1..3 : ret_other[1][j] = MatVec[xf.m, rets[1][j]]

\* C6 (amended): the substituents of the rotated input are the rotated
\* substituents of the input up to one common turn about the bond axis:
\* same mean point Q*m, same scalar products about it, same heights along
\* the bond direction, same orientation.  A bond direction anti-parallel to
\* (0,0,1), before or after the rotation, gives nan coordinates instead.
C6_RotationUpToAxisTurn ==
    (Compared("rot") /\ NonDegenerate) =>
        /\ AntiParallel(self) => \A j \in 1..3 : AllNaN(rets[1][j])
        /\ AntiParallel(other[1]) => \A j \in 1..3 : AllNaN(ret_other[1][j])
        /\ (~AntiParallel(self) /\ ~AntiParallel(other[1])) =>
             /\ Mean3(ret_other[1]) = MatVec[xf.m, Mean3(rets[1])]
             /\ ShapeAbout(ret_other[1], Mean3(ret_other[1]), other[1].bond_length_norm)
                  = ShapeAbout(rets[1], Mean3(rets[1]), self.bond_length_norm)

\* Both results are finite and the result for the rotated input differs,
\* vertex by vertex, from the rotated result.
C6_Witness ==
    /\ Compared("rot")
    /\ NonDegenerate
    /\ ~AntiParallel(self)
    /\ ~AntiParallel(other[1])
    /\ \A j \in 1..3 : AllFinite(rets[1][j]) /\ AllFinite(ret_other[1][j])
    /\ \A j \in 1..3 : ret_other[1][j] # MatVec[xf.m, rets[1][j]]

\* C7: the substituents of the translated input are, vertex by vertex, the
\* substituents of the input translated by the same vector.
C7_TranslationCommutes ==
    (Compared("trans") /\ NonDegenerate) =>
        \A j \in 1..3 : ret_other[1][j] = VAdd[rets[1][j], xf.t]

\* Both results are finite, for a bond off the z axis.
C7_Witness ==
    /\ Compared("trans")
    /\ NonDegenerate
    /\ self.bond_length_norm[3] \notin {One, Num(-1)}
    /\ \A j \in 1..3 : AllFinite(rets[1][j]) /\ AllFinite(ret_other[1][j])
    /\ ret_other[1] # rets[1]

====
